---- MODULE Spec2Model ----
(***************************************************************************)
(* A model of the catalog resolution engine of src/CensusData.py: the      *)
(* CensusData object (years, products, geos, variables, the catalog cache  *)
(* and the three last-filtered views), its list_* and set_* methods, and   *)
(* the remote JSON endpoints as a nondeterministic environment.            *)
(*                                                                         *)
(* Python values are tagged records ([type |-> "NoneType"], "int", "str",  *)
(* "list", "bool"), strings are sequences of one-character strings, and    *)
(* dicts are TLA+ records whose DOMAIN is the dict's key set.  Product     *)
(* dicts are mutable and shared by reference between the catalog cache,    *)
(* the last-filtered view and the pinned products, so they live in a heap  *)
(* and the three lists hold references (heap indices).                     *)
(***************************************************************************)
EXTENDS Integers, Sequences, FiniteSets, TLC

VARIABLES
    years,                      \* self.years: None | list of int
    products,                   \* self.products: list of product references
    geos,                       \* self.geos: list of geo dicts
    variables,                  \* self.variables: list of variable groups
    products_cache,             \* self._products_cache: None | list of refs
    filtered_products_cache,    \* self._filtered_products_cache
    filtered_geos_cache,        \* self._filtered_geos_cache
    filtered_variables_cache,   \* self._filtered_variables_cache
    heap,                       \* the product dicts, by reference
    lastCall                    \* the last call: method, arguments, outcome

vars == <<years, products, geos, variables, products_cache,
          filtered_products_cache, filtered_geos_cache,
          filtered_variables_cache, heap, lastCall>>

-----------------------------------------------------------------------------
(* Bounds of the model.                                                    *)

\* Years given to set_years and list_products range over 0..MaxYear.
MaxYear == 2

-----------------------------------------------------------------------------
(* Python values.                                                          *)

None == [type |-> "NoneType"]
PyInt(i) == [type |-> "int", v |-> i]
PyStr(s) == [type |-> "str", v |-> s]
PyList(l) == [type |-> "list", v |-> l]
PyBool(b) == [type |-> "bool", v |-> b]
PyDict(d) == [type |-> "dict", v |-> d]

IsNone(x) == x.type = "NoneType"

\* isinstance(x, int): bool is a subclass of int.
IsInt(x) == x.type \in {"int", "bool"}

\* The number an int or bool is, as ==, hash and < take it: True is 1 and
\* False is 0.
NumOf(x) == IF x.type = "bool" THEN (IF x.v THEN 1 ELSE 0) ELSE x.v

\* Whether hash(x) raises TypeError: lists and dicts are unhashable.
Unhashable(x) == x.type \in {"list", "dict"}

\* a == b for scalars: numbers by value (True == 1), the rest by type and
\* value.
PyEq(a, b) ==
    IF IsInt(a) /\ IsInt(b) THEN NumOf(a) = NumOf(b)
    ELSE a.type = b.type /\ a = b

\* Python truthiness of a tagged value: bool(x).
Truthy(x) ==
    CASE x.type = "NoneType" -> FALSE
      [] x.type = "int" -> x.v # 0
      [] x.type = "bool" -> x.v
      [] x.type = "dict" -> DOMAIN x.v # {}
      [] OTHER -> Len(x.v) > 0

\* d.get(k, default) for a dict
Get(d, k, default) == IF k \in DOMAIN d THEN d[k] ELSE default

Range(s) == {s[i] : i \in 1..Len(s)}

\* [f(x) for x in s if P(x)] keeps the order of s.
RECURSIVE SelectIdx(_, _)
SelectIdx(n, keep) ==
    IF n = 0 THEN <<>>
    ELSE IF n \in keep THEN Append(SelectIdx(n - 1, keep), n)
         ELSE SelectIdx(n - 1, keep)

Pick(s, idx) == [i \in 1..Len(idx) |-> s[idx[i]]]

\* The subsequence of s at the positions in keep, in order.
SubSeqAt(s, keep) == Pick(s, SelectIdx(Len(s), keep))

RECURSIVE Flatten(_)
Flatten(ss) == IF Len(ss) = 0 THEN <<>> ELSE Head(ss) \o Flatten(Tail(ss))

-----------------------------------------------------------------------------
(* Text: str.lower, substring test, str ordering, int() and str().         *)

Digit == [c \in {"0", "1", "2", "3", "4", "5", "6", "7", "8", "9"} |->
            CASE c = "0" -> 0 [] c = "1" -> 1 [] c = "2" -> 2 [] c = "3" -> 3
              [] c = "4" -> 4 [] c = "5" -> 5 [] c = "6" -> 6 [] c = "7" -> 7
              [] c = "8" -> 8 [] c = "9" -> 9]

DigitChar == <<"0", "1", "2", "3", "4", "5", "6", "7", "8", "9">>

Upper == <<"A", "B", "C", "D", "E", "F", "G", "H", "I", "J", "K", "L", "M",
           "N", "O", "P", "Q", "R", "S", "T", "U", "V", "W", "X", "Y", "Z">>
Lower == <<"a", "b", "c", "d", "e", "f", "g", "h", "i", "j", "k", "l", "m",
           "n", "o", "p", "q", "r", "s", "t", "u", "v", "w", "x", "y", "z">>

\* The code point of a character of the model's alphabet.
Ord(c) ==
    IF c \in DOMAIN Digit THEN 48 + Digit[c]
    ELSE IF \E i \in 1..26 : Upper[i] = c
         THEN 64 + (CHOOSE i \in 1..26 : Upper[i] = c)
    ELSE IF \E i \in 1..26 : Lower[i] = c
         THEN 96 + (CHOOSE i \in 1..26 : Lower[i] = c)
    ELSE CASE c = " " -> 32 [] c = "(" -> 40 [] c = ")" -> 41
           [] c = "+" -> 43 [] c = "-" -> 45 [] c = "_" -> 95
           [] OTHER -> 127

LowerChar(c) ==
    IF \E i \in 1..26 : Upper[i] = c
    THEN Lower[CHOOSE i \in 1..26 : Upper[i] = c]
    ELSE c

\* str.lower()
StrLower(s) == [i \in 1..Len(s) |-> LowerChar(s[i])]

\* needle in hay, for str
Contains(hay, needle) ==
    \E i \in 0..(Len(hay) - Len(needle)) :
        \A j \in 1..Len(needle) : hay[i + j] = needle[j]

\* a < b for str: lexicographic by code point
StrLess(a, b) ==
    \E k \in 1..(Len(b)) :
        /\ \A j \in 1..(k - 1) : j <= Len(a) /\ a[j] = b[j]
        /\ k - 1 <= Len(a)
        /\ (k > Len(a) \/ Ord(a[k]) < Ord(b[k]))

\* sorted(list(set(xs))) for a list of str
SortedSet(xs) ==
    LET S == Range(xs)
        rank(x) == Cardinality({y \in S : StrLess(y, x)})
    IN [i \in 1..Cardinality(S) |-> CHOOSE x \in S : rank(x) = i - 1]

\* sorted(list(set(xs))) for a list of int and bool: elements that are the
\* same number are one element of the set, the first of them in xs.
SortedIntSet(xs) ==
    LET S == {NumOf(xs[i]) : i \in 1..Len(xs)}
        first(n) == xs[CHOOSE i \in 1..Len(xs) :
                          NumOf(xs[i]) = n /\ \A j \in 1..(i - 1) : NumOf(xs[j]) # n]
        rank(n) == Cardinality({m \in S : m < n})
    IN [i \in 1..Cardinality(S) |-> first(CHOOSE n \in S : rank(n) = i - 1)]

\* s.strip(): the whitespace of the model's alphabet is the space.
RECURSIVE Strip(_)
Strip(s) ==
    IF Len(s) > 0 /\ Head(s) = " " THEN Strip(Tail(s))
    ELSE IF Len(s) > 0 /\ s[Len(s)] = " " THEN Strip(SubSeq(s, 1, Len(s) - 1))
    ELSE s

\* What int(s) reads after the surrounding whitespace and one leading sign.
IntBody(s) ==
    LET Unsigned(t) == IF Len(t) > 0 /\ Head(t) \in {"+", "-"} THEN Tail(t) ELSE t
    IN Unsigned(Strip(s))

\* The digits int(s) reads: the underscores between them are dropped.
IntDigits(s) ==
    LET IsDigit(c) == c \in DOMAIN Digit
    IN SelectSeq(IntBody(s), IsDigit)

\* sys.get_int_max_str_digits() of CPython 3.11 and later: int(s) raises
\* ValueError for a decimal string of more digits.
IntMaxStrDigits == 4300

\* Whether int(s) succeeds: optional whitespace around an optional sign and
\* digits, single underscores allowed between digits, at most
\* IntMaxStrDigits digits.
IntParses(s) ==
    LET Wellformed(b) ==
            /\ Len(b) > 0
            /\ \A i \in 1..Len(b) : b[i] \in DOMAIN Digit \cup {"_"}
            /\ b[1] # "_" /\ b[Len(b)] # "_"
            /\ \A i \in 1..(Len(b) - 1) : ~(b[i] = "_" /\ b[i + 1] = "_")
    IN Wellformed(IntBody(s)) /\ Len(IntDigits(s)) <= IntMaxStrDigits

RECURSIVE IntOf(_)
IntOf(s) ==
    IF Len(s) = 0 THEN 0
    ELSE 10 * IntOf(SubSeq(s, 1, Len(s) - 1)) + Digit[s[Len(s)]]

RECURSIVE NatStr(_)
NatStr(n) ==
    IF n < 10 THEN <<DigitChar[n + 1]>>
    ELSE Append(NatStr(n \div 10), DigitChar[(n % 10) + 1])

\* int(s) where it succeeds
IntValue(s) ==
    LET Signed(t, n) == IF Len(t) > 0 /\ Head(t) = "-" THEN 0 - n ELSE n
    IN Signed(Strip(s), IntOf(IntDigits(s)))

\* str(n) for an int
IntStr(n) == IF n < 0 THEN <<"-">> \o NatStr(0 - n) ELSE NatStr(n)

\* str(x) of a tagged scalar
StrOf(x) ==
    CASE x.type = "str" -> x.v
      [] x.type = "int" -> IntStr(x.v)
      [] x.type = "bool" ->
            IF x.v THEN <<"T", "r", "u", "e">> ELSE <<"F", "a", "l", "s", "e">>
      [] OTHER -> <<"N", "o", "n", "e">>

\* s.split(sep) for a one-character separator
RECURSIVE Split(_, _)
Split(s, sep) ==
    IF \A i \in 1..Len(s) : s[i] # sep THEN <<s>>
    ELSE LET k == CHOOSE i \in 1..Len(s) :
                    s[i] = sep /\ \A j \in 1..(i - 1) : s[j] # sep
         IN <<SubSeq(s, 1, k - 1)>> \o Split(SubSeq(s, k + 1, Len(s)), sep)

-----------------------------------------------------------------------------
(* _parse_vintage                                                          *)

\* A digit string without its leading zeros.
RECURSIVE StripZeros(_)
StripZeros(s) ==
    IF Len(s) > 1 /\ Head(s) = "0" THEN StripZeros(Tail(s)) ELSE s

\* list(range(a, b))
RangeList(a, b) == IF b > a THEN [i \in 1..(b - a) |-> a + i - 1] ELSE <<>>

\* CensusData._parse_vintage: the years of a raw c_vintage value, [] when
\* the value is falsy or int() or the two-way unpacking raises ValueError.
\* The parts of a range carry no minus sign, so a start of more digits than
\* the end is the greater number and the range is empty.
ParseVintage(vintage_input) ==
    LET Longer(a, b) == Len(StripZeros(IntDigits(a))) > Len(StripZeros(IntDigits(b)))
        Span(parts) ==
            IF Len(parts) = 2 /\ IntParses(parts[1]) /\ IntParses(parts[2])
            THEN (IF Longer(parts[1], parts[2]) THEN <<>>
                  ELSE RangeList(IntValue(parts[1]), IntValue(parts[2]) + 1))
            ELSE <<>>
        Parse(vintage_str) ==
            IF "-" \in Range(vintage_str) THEN Span(Split(vintage_str, "-"))
            ELSE IF IntParses(vintage_str) THEN <<IntValue(vintage_str)>> ELSE <<>>
    IN IF ~Truthy(vintage_input) THEN <<>> ELSE Parse(StrOf(vintage_input))

\* sys.maxsize (2^63 - 1) in decimal digits: list(range(a, b)) raises
\* OverflowError when the length of the range does not fit a C ssize_t.
SsizeMax ==
    <<"9", "2", "2", "3", "3", "7", "2", "0", "3", "6",
      "8", "5", "4", "7", "7", "5", "8", "0", "7">>

\* a < b for numbers in decimal digits without leading zeros
DigitsLess(a, b) ==
    \/ Len(a) < Len(b)
    \/ /\ Len(a) = Len(b)
       /\ \E k \in 1..Len(a) :
             /\ \A j \in 1..(k - 1) : a[j] = b[j]
             /\ Digit[a[k]] < Digit[b[k]]

\* a + b + carry in decimal digits
RECURSIVE DigitsAdd(_, _, _)
DigitsAdd(a, b, carry) ==
    LET Last(x) == IF Len(x) = 0 THEN 0 ELSE Digit[x[Len(x)]]
        Front(x) == IF Len(x) = 0 THEN x ELSE SubSeq(x, 1, Len(x) - 1)
        Put(sum) == Append(DigitsAdd(Front(a), Front(b), sum \div 10),
                           DigitChar[(sum % 10) + 1])
    IN IF Len(a) = 0 /\ Len(b) = 0
       THEN (IF carry = 0 THEN <<>> ELSE <<DigitChar[carry + 1]>>)
       ELSE Put(Last(a) + Last(b) + carry)

\* A number of two digits more than sys.maxsize.
BeyondSsize == <<"1">> \o [i \in 1..(Len(SsizeMax) + 1) |-> "0"]

\* A number of IntMaxStrDigits + 1 digits.
BeyondIntMax == [i \in 1..(IntMaxStrDigits + 1) |-> "9"]

\* len(range(start, end + 1)) > limit for the range string 'start-end':
\* int() reads both parts, neither has a minus sign, and end + 1 - start
\* exceeds limit exactly when end >= start + limit.  A part of more than
\* IntMaxStrDigits digits is a ValueError of int(), which is caught, before
\* any range is built.
RangeLonger(vintage_str, limit) ==
    LET Exceeds(start, end) == ~DigitsLess(end, DigitsAdd(start, limit, 0))
        Long(parts) ==
            /\ Len(parts) = 2 /\ IntParses(parts[1]) /\ IntParses(parts[2])
            /\ Exceeds(StripZeros(IntDigits(parts[1])), StripZeros(IntDigits(parts[2])))
    IN "-" \in Range(vintage_str) /\ Long(Split(vintage_str, "-"))

\* list(range(start, end + 1)) raises OverflowError
RangeOverflows(vintage_str) == RangeLonger(vintage_str, SsizeMax)

\* CensusData._parse_vintage with what it raises: ValueError and TypeError
\* are caught, the OverflowError and the MemoryError of list(range(...))
\* are not.  Whether the list of a range that fits a C ssize_t can be
\* allocated is the machine's answer: capacity is the number of list
\* elements its memory holds, in decimal digits, and a longer range raises
\* MemoryError.
parse_vintage(vintage_input, capacity) ==
    IF Truthy(vintage_input) /\ RangeOverflows(StrOf(vintage_input))
    THEN [ret |-> None, raised |-> "OverflowError"]
    ELSE IF Truthy(vintage_input) /\ RangeLonger(StrOf(vintage_input), capacity)
    THEN [ret |-> None, raised |-> "MemoryError"]
    ELSE [ret |-> PyList(ParseVintage(vintage_input)), raised |-> ""]

-----------------------------------------------------------------------------
(* Regular expressions: re.compile(p, re.IGNORECASE) and regex.search.     *)
(* The patterns of the model are literal characters and group parentheses: *)
(* compiling raises re.error when the parentheses do not balance, and a    *)
(* compiled pattern matches where its literal text occurs, ignoring case.  *)

RECURSIVE ParenDepth(_, _)
ParenDepth(p, depth) ==
    IF depth < 0 THEN depth
    ELSE IF Len(p) = 0 THEN depth
    ELSE ParenDepth(Tail(p), CASE Head(p) = "(" -> depth + 1
                               [] Head(p) = ")" -> depth - 1
                               [] OTHER -> depth)

\* re.compile(p) raises re.error
ReError(p) == ParenDepth(p, 0) # 0

Literal(p) == SubSeqAt(p, {i \in 1..Len(p) : p[i] \notin {"(", ")"}})

\* re.compile(p, re.IGNORECASE).search(text) is not None
ReSearch(p, text) == Contains(StrLower(text), StrLower(Literal(p)))

\* A filter that asks for every pattern whatever logic is passed.
LogicAlways(logic, pattern_list, text) ==
    \A i \in 1..Len(pattern_list) : ReSearch(pattern_list[i], text)

\* logic(regex.search(text) for regex in regexes), logic being all or any
Logic(logic, pattern_list, text) ==
    IF logic = "all"
    THEN \A i \in 1..Len(pattern_list) : ReSearch(pattern_list[i], text)
    ELSE \E i \in 1..Len(pattern_list) : ReSearch(pattern_list[i], text)

\* [patterns] if isinstance(patterns, str) else patterns
AsList(x) == IF x.type = "str" THEN <<x.v>> ELSE x.v

\* A pattern filter that compiles each pattern only when it is first used,
\* so that a later invalid pattern goes unnoticed.
PatternsRaiseFirst(patterns) ==
    Truthy(patterns) /\ ReError(AsList(patterns)[1])

\* Iterating the argument raises TypeError: a truthy int or bool where a str
\* or a list is expected.
NotIterable(x) == IsInt(x) /\ Truthy(x)

\* The try block of the pattern filter raises re.error.
PatternsRaise(patterns) ==
    /\ Truthy(patterns) /\ ~NotIterable(patterns)
    /\ \E i \in 1..Len(AsList(patterns)) : ReError(AsList(patterns)[i])

\* The try block of the pattern filter raises TypeError, which it does not
\* catch: the patterns cannot be iterated, or every pattern compiles and
\* regex.search is given a truthy field that is no str.
FilterRaises(texts, patterns) ==
    /\ Truthy(patterns)
    /\ \/ NotIterable(patterns)
       \/ /\ ~PatternsRaise(patterns)
          /\ \E i \in 1..Len(texts) : Truthy(texts[i]) /\ texts[i].type # "str"

\* The positions of the dicts of a list that pass the pattern filter on a
\* field: x.get(field) and logic(regex.search(x[field]) for regex in regexes)
PatternKeep(texts, patterns, logic) ==
    {i \in 1..Len(texts) :
        /\ Truthy(texts[i]) /\ texts[i].type = "str"
        /\ Logic(logic, AsList(patterns), texts[i].v)}

-----------------------------------------------------------------------------
(* The remote endpoints.  _get_json_from_url returns the decoded document, *)
(* or None after a transport error or an undecodable body; what a URL      *)
(* answers is the environment's choice at each fetch.                      *)

ApiHost == "api.census.gov/data"
CatalogURL == <<"https://", ApiHost, ".json">>
Url1 == <<"http://", ApiHost, "/1/acs/acs5">>
Url2 == <<"http://", ApiHost, "/2/acs/acs5">>
Url3 == <<"http://", ApiHost, "/2/cps">>
Url4 == <<"http://", ApiHost, "/timeseries">>
UrlOther == <<"http://", "www2.census.gov", "/acs5">>

T_Acs5 == <<"A", "c", "s", "5">>
T_Cps == <<"C", "p", "s">>
T_Nope == <<"N", "o">>

\* Catalog entries: two vintages of one title, another title with an integer
\* vintage, an entry without title or vintage, and one without an API URL.
Entry1 == [title |-> PyStr(T_Acs5), description |-> PyStr(<<"d", "1">>),
           c_vintage |-> PyStr(<<"1">>),
           c_dataset |-> PyList(<<PyStr(<<"a", "c", "s">>), PyStr(<<"a", "c", "s", "5">>)>>),
           c_isAggregate |-> PyBool(TRUE),
           distribution |-> <<[accessURL |-> UrlOther], [accessURL |-> Url1]>>]
Entry2 == [title |-> PyStr(T_Acs5), description |-> PyStr(<<"d", "2">>),
           c_vintage |-> PyStr(<<"1", "-", "2">>),
           c_dataset |-> PyList(<<PyStr(<<"a", "c", "s">>)>>),
           c_isAggregate |-> PyStr(<<"T", "R", "U", "E">>),
           distribution |-> <<[accessURL |-> Url2]>>]
Entry3 == [title |-> PyStr(T_Cps), description |-> PyStr(<<"d", "3">>),
           c_vintage |-> PyInt(2),
           c_isMicrodata |-> PyBool(TRUE),
           distribution |-> <<[accessURL |-> Url3]>>]
Entry4 == [description |-> PyStr(<<"d", "4">>),
           distribution |-> <<[format |-> "API"], [accessURL |-> Url4]>>]
\* An entry whose vintage is a range longer than sys.maxsize.
EntryHuge == [title |-> PyStr(T_Cps), description |-> PyStr(<<"d", "5">>),
              c_vintage |-> PyStr(<<"1", "-">> \o BeyondSsize),
              distribution |-> <<[accessURL |-> Url3]>>]
EntryNoApi == [title |-> PyStr(T_Acs5), c_vintage |-> PyStr(<<"1">>),
               distribution |-> <<[accessURL |-> UrlOther]>>]

DocA == PyDict([dataset |-> <<Entry1, EntryNoApi, Entry2>>])
DocB == PyDict([dataset |-> <<Entry1, Entry3, Entry4>>])
DocHuge == PyDict([dataset |-> <<Entry1, EntryHuge>>])
\* A document whose every entry is dropped, and one without a dataset list.
DocNoProducts == PyDict([dataset |-> <<EntryNoApi>>])
DocNoDataset == PyDict([error |-> PyStr(<<"x">>)])

\* What _get_json_from_url(CatalogURL) may return.
CatalogResponses == {None, DocNoDataset, DocNoProducts, DocA, DocB, DocHuge}

\* CensusData.list_products, the loop body that builds one product dict.
AccessUrl(d) ==
    LET First(dists, ok) ==
            IF ok = {} THEN None
            ELSE PyStr(dists[CHOOSE i \in ok : \A j \in ok : i <= j].accessURL)
        Among(dists) ==
            First(dists, {i \in 1..Len(dists) :
                            Contains(Get(dists[i], "accessURL", <<>>), <<ApiHost>>)})
    IN Among(Get(d, "distribution", <<>>))

DatasetType(d) ==
    LET Of(c_dataset_val) ==
            IF c_dataset_val.type = "list" /\ Len(c_dataset_val.v) > 1
            THEN c_dataset_val.v[2]
            ELSE PyStr(<<"N", "/", "A">>)
    IN Of(Get(d, "c_dataset", None))

IsTrue(x) == StrLower(StrOf(x)) = <<"t", "r", "u", "e">>

BuildProduct(d, capacity) ==
    [title |-> Get(d, "title", None),
     desc |-> Get(d, "description", None),
     vintage |-> parse_vintage(Get(d, "c_vintage", None), capacity).ret.v,
     type |-> DatasetType(d),
     url |-> AccessUrl(d),
     is_microdata |-> IsTrue(Get(d, "c_isMicrodata", PyStr(<<"f", "a", "l", "s", "e">>))),
     is_aggregate |-> IsTrue(Get(d, "c_isAggregate", PyStr(<<"f", "a", "l", "s", "e">>)))]

\* The product dicts built from data["dataset"], entries without a usable
\* access URL skipped.
BuildProducts(dataset, capacity) ==
    LET Build(kept) == [i \in 1..Len(kept) |-> BuildProduct(kept[i], capacity)]
    IN Build(SubSeqAt(dataset, {i \in 1..Len(dataset) :
                                  Truthy(AccessUrl(dataset[i]))}))

\* What building the product dicts raises ("" when nothing): the exception
\* _parse_vintage lets through for an entry with a usable access URL.
BuildRaises(dataset, capacity) ==
    LET Raised(i) == parse_vintage(Get(dataset[i], "c_vintage", None), capacity).raised
        Raising == {i \in 1..Len(dataset) :
                      Truthy(AccessUrl(dataset[i])) /\ Raised(i) # ""}
    IN IF Raising = {} THEN ""
       ELSE Raised(CHOOSE i \in Raising : \A j \in Raising : i <= j)

-----------------------------------------------------------------------------
(* The object.  A method is an operator from the object (a record of its   *)
(* fields and the heap of product dicts), the arguments and the documents  *)
(* the remote answers with, to the object after the call, the value        *)
(* returned, the fetches issued (URL and response, in order) and the       *)
(* exception raised ("" when none).                                        *)

Self ==
    [years |-> years, products |-> products, geos |-> geos,
     variables |-> variables, products_cache |-> products_cache,
     filtered_products_cache |-> filtered_products_cache,
     filtered_geos_cache |-> filtered_geos_cache,
     filtered_variables_cache |-> filtered_variables_cache,
     heap |-> heap]

Outcome(self, ret, fetched, raised) ==
    [self |-> self, ret |-> ret, fetched |-> fetched, raised |-> raised]

\* CensusData.__init__ without years or key
InitSelf ==
    [years |-> None, products |-> PyList(<<>>), geos |-> PyList(<<>>),
     variables |-> PyList(<<>>), products_cache |-> None,
     filtered_products_cache |-> None, filtered_geos_cache |-> None,
     filtered_variables_cache |-> None, heap |-> <<>>]

\* CensusData.set_years
set_years(self, yrs) ==
    IF IsInt(yrs)
    THEN Outcome([self EXCEPT !.years = PyList(<<yrs>>)], None, <<>>, "")
    ELSE IF yrs.type = "list" /\ \A i \in 1..Len(yrs.v) : IsInt(yrs.v[i])
    THEN Outcome([self EXCEPT !.years = PyList(SortedIntSet(yrs.v))],
                 None, <<>>, "")
    ELSE Outcome(self, None, <<>>, "TypeError")

\* set(target_years), the numbers of it: a bool is the number it equals, and
\* an element that is no number equals no year of a vintage.
TargetSet(target_years) ==
    {NumOf(target_years.v[i]) : i \in {j \in 1..Len(target_years.v) :
                                         IsInt(target_years.v[j])}}

\* Whether set(target_years) raises TypeError: an element is unhashable.
TargetSetRaises(target_years) ==
    /\ Truthy(target_years)
    /\ target_years.type = "list"
    /\ \E i \in 1..Len(target_years.v) : Unhashable(target_years.v[i])

\* The cache after the catalog stage of list_products: the cache kept when
\* it is truthy, else the product list built from the fetched document.
CatalogStage(self, data, capacity) ==
    IF Truthy(self.products_cache)
    THEN [ok |-> TRUE, raised |-> "", cache |-> self.products_cache,
          heap |-> self.heap, fetched |-> <<>>]
    ELSE IF ~Truthy(data) \/ "dataset" \notin DOMAIN data.v
    THEN [ok |-> FALSE, raised |-> "", cache |-> self.products_cache,
          heap |-> self.heap,
          fetched |-> <<[url |-> CatalogURL, response |-> data]>>]
    ELSE IF BuildRaises(data.v.dataset, capacity) # ""
    THEN [ok |-> FALSE, raised |-> BuildRaises(data.v.dataset, capacity),
          cache |-> self.products_cache, heap |-> self.heap,
          fetched |-> <<[url |-> CatalogURL, response |-> data]>>]
    ELSE LET Cached(built) ==
                 [ok |-> TRUE, raised |-> "",
                  cache |-> PyList([i \in 1..Len(built) |-> Len(self.heap) + i]),
                  heap |-> self.heap \o built,
                  fetched |-> <<[url |-> CatalogURL, response |-> data]>>]
         IN Cached(BuildProducts(data.v.dataset, capacity))

\* The year filter of list_products over a list of product references.
YearFilter(h, refs, target_years) ==
    IF Truthy(target_years)
    THEN SubSeqAt(refs, {i \in 1..Len(refs) :
                           /\ Len(h[refs[i]].vintage) > 0
                           /\ TargetSet(target_years) \cap Range(h[refs[i]].vintage) # {}})
    ELSE refs

\* The pattern filter of list_products over a list of product references.
TitleFilter(h, refs, patterns, logic) ==
    IF Truthy(patterns)
    THEN SubSeqAt(refs, PatternKeep([i \in 1..Len(refs) |-> h[refs[i]].title],
                                    patterns, logic))
    ELSE refs

\* The years list_products filters by: the argument, else the object's.
TargetYears(self, yrs) ==
    IF ~IsNone(yrs)
    THEN (IF IsInt(yrs) THEN PyList(<<yrs>>)
          ELSE IF yrs.type = "str"
          THEN PyList([i \in 1..Len(yrs.v) |-> PyStr(<<yrs.v[i]>>)])
          ELSE yrs)
    ELSE self.years

\* CensusData.list_products
list_products(self, yrs, patterns, to_dicts, logic, data, capacity) ==
    LET Finish(cat, passing, filtered) ==
            IF FilterRaises([i \in 1..Len(passing) |-> cat.heap[passing[i]].title],
                            patterns)
            THEN Outcome([self EXCEPT !.products_cache = cat.cache, !.heap = cat.heap],
                         None, cat.fetched, "TypeError")
            ELSE IF PatternsRaise(patterns)
            THEN Outcome([self EXCEPT !.products_cache = cat.cache, !.heap = cat.heap],
                         PyList(<<>>), cat.fetched, "")
            ELSE Outcome([self EXCEPT !.products_cache = cat.cache, !.heap = cat.heap,
                                      !.filtered_products_cache = PyList(filtered)],
                         IF to_dicts THEN PyList(filtered)
                         ELSE PyList([i \in 1..Len(filtered) |-> cat.heap[filtered[i]].title]),
                         cat.fetched, "")
        Years(cat, passing) ==
            Finish(cat, passing,
                   IF FilterRaises([i \in 1..Len(passing) |-> cat.heap[passing[i]].title],
                                   patterns) \/ PatternsRaise(patterns)
                   THEN <<>> ELSE TitleFilter(cat.heap, passing, patterns, logic))
        Filter(cat) ==
            IF cat.raised # "" THEN Outcome(self, None, cat.fetched, cat.raised)
            ELSE IF ~cat.ok THEN Outcome(self, PyList(<<>>), cat.fetched, "")
            ELSE IF TargetSetRaises(TargetYears(self, yrs))
            THEN Outcome([self EXCEPT !.products_cache = cat.cache, !.heap = cat.heap],
                         None, cat.fetched, "TypeError")
            ELSE Years(cat, YearFilter(cat.heap, cat.cache.v, TargetYears(self, yrs)))
    IN Filter(CatalogStage(self, data, capacity))

\* d[k] = v for a dict
SetItem(d, k, v) == [x \in DOMAIN d \cup {k} |-> IF x = k THEN v ELSE d[x]]

\* self.years or []
YearsOrEmpty(self) == IF Truthy(self.years) THEN self.years ELSE PyList(<<>>)

\* p.get("title") == title for a title given as a str: only a str equals it.
TitleIs(value, title) == value.type = "str" /\ value.v = title

\* A resolution that takes one product per title, the first that matches.
MatchTitlesFirst(h, all_prods, title_list) ==
    Flatten([t \in 1..Len(title_list) |->
                SubSeqAt(all_prods,
                         {i \in 1..Len(all_prods) :
                            /\ TitleIs(h[all_prods[i]].title, title_list[t])
                            /\ \A j \in 1..(i - 1) :
                                  ~TitleIs(h[all_prods[j]].title, title_list[t])})])

\* The products set_products resolves the given titles to, title by title.
MatchTitles(h, all_prods, title_list) ==
    Flatten([t \in 1..Len(title_list) |->
                SubSeqAt(all_prods, {i \in 1..Len(all_prods) :
                                       TitleIs(h[all_prods[i]].title, title_list[t])})])

\* The tail of set_products: self.products is emptied, then every product to
\* set gets its base_url and is appended.
PinProducts(self, prods_to_set) ==
    [self EXCEPT
        !.products = PyList(prods_to_set),
        !.heap = [i \in 1..Len(self.heap) |->
                    IF i \in Range(prods_to_set)
                    THEN SetItem(self.heap[i], "base_url",
                                 Get(self.heap[i], "url", PyStr(<<>>)))
                    ELSE self.heap[i]]]

\* The list set_products() pins when no titles are given.
ViewToPin(self) == self.filtered_products_cache

\* CensusData.set_products
set_products(self, titles, data, capacity) ==
    IF IsNone(titles)
    THEN IF ~Truthy(ViewToPin(self))
         THEN Outcome(self, None, <<>>, "")
         ELSE Outcome(PinProducts(self, ViewToPin(self).v), None, <<>>, "")
    ELSE LET Resolve(listed) ==
                 IF listed.raised # "" THEN listed
                 ELSE IF IsInt(titles)
                 THEN Outcome(listed.self, None, listed.fetched, "TypeError")
                 ELSE
                 Outcome(PinProducts(listed.self,
                                     MatchTitles(listed.self.heap, listed.ret.v,
                                                 AsList(titles))),
                         None, listed.fetched, "")
         IN Resolve(list_products(self, YearsOrEmpty(self), None, TRUE, "all", data,
                                  capacity))

-----------------------------------------------------------------------------
(* The per-product sub-resources.                                          *)

T_State == <<"S", "t", "a", "t", "e">>
T_County == <<"C", "o", "u", "n", "t", "y">>
L040 == <<"0", "4", "0">>
L050 == <<"0", "5", "0">>
L999 == <<"9", "9", "9">>

GeoState == [name |-> PyStr(T_State), geoLevelDisplay |-> PyStr(L040),
             referenceDate |-> PyStr(<<"1">>)]
GeoCounty == [name |-> PyStr(T_County), geoLevelDisplay |-> PyStr(L050),
              requires |-> PyList(<<PyStr(<<"s", "t", "a", "t", "e">>)>>)]
GeoNoLevel == [name |-> PyStr(<<"u", "s">>)]

\* The geography document of a product's URL.
GeographyDoc(url) ==
    CASE url = Url1 \o <<"/geography.json">> -> PyDict([fips |-> <<GeoNoLevel, GeoState>>])
      [] url = Url2 \o <<"/geography.json">> -> PyDict([fips |-> <<GeoCounty, GeoState>>])
      [] url = Url3 \o <<"/geography.json">> -> PyDict([fips |-> <<GeoState>>])
      [] OTHER -> PyDict([error |-> PyStr(<<"x">>)])

\* What _get_json_from_url(f"{base_url}/geography.json") may return.
GeographyResponses(url, mayFail) ==
    IF mayFail THEN {None, GeographyDoc(url)} ELSE {GeographyDoc(url)}

N_B01 == <<"B", "0", "1">>
N_B02 == <<"B", "0", "2">>
N_A01 == <<"A", "0", "1">>
T_Income == <<"I", "n", "c", "o", "m", "e">>
T_Age == <<"A", "g", "e">>

VarIncome == [label |-> PyStr(T_Income), concept |-> PyStr(<<"c">>),
              group |-> PyStr(<<"B">>)]
VarAge == [label |-> PyStr(T_Age)]
VarNoLabel == [concept |-> PyStr(<<"c">>)]

\* The variables document of a product's URL: data["variables"].items() in
\* the document's order.
VariablesDoc(url) ==
    CASE url = Url1 \o <<"/variables.json">> ->
            PyDict([variables |-> <<[name |-> <<"G", "E", "O", "_", "I", "D">>, details |-> VarNoLabel],
                                    [name |-> N_B01, details |-> VarIncome]>>])
      [] url = Url2 \o <<"/variables.json">> ->
            PyDict([variables |-> <<[name |-> <<"f", "o", "r">>, details |-> VarNoLabel],
                                    [name |-> N_B01, details |-> VarIncome],
                                    [name |-> N_A01, details |-> VarAge]>>])
      [] url = Url3 \o <<"/variables.json">> ->
            PyDict([variables |-> <<[name |-> N_B02, details |-> VarNoLabel],
                                    [name |-> <<"i", "n">>, details |-> VarNoLabel]>>])
      [] OTHER -> PyDict([error |-> PyStr(<<"x">>)])

\* What _get_json_from_url(f"{base_url}/variables.json") may return.
VariablesResponses(url, mayFail) ==
    IF mayFail THEN {None, VariablesDoc(url)} ELSE {VariablesDoc(url)}

\* The URL list_geos and list_variables fetch for the i-th pinned product.
SubUrl(self, i, resource) == self.heap[self.products.v[i]].base_url.v \o <<resource>>

\* What the fetch for the i-th pinned product may return.
SubResponses(self, i, resource, mayFail) ==
    IF resource = "/geography.json"
    THEN GeographyResponses(SubUrl(self, i, resource), mayFail)
    ELSE VariablesResponses(SubUrl(self, i, resource), mayFail)

\* The answers the remote may give to the fetches of one listing call: one
\* per pinned product, in order (none when no product is pinned).
Answers(self, resource, mayFail) ==
    LET Per(n, all) ==
            {a \in [1..n -> all] :
               \A i \in 1..n : a[i] \in SubResponses(self, i, resource, mayFail)}
    IN Per(Len(self.products.v),
           UNION {SubResponses(self, i, resource, mayFail) :
                    i \in 1..Len(self.products.v)})

\* The numbers of list elements the memory of the machine may hold, in
\* decimal digits: a million and a billion.
SmallCapacity == <<"1", "0", "0", "0", "0", "0", "0">>
LargeCapacity == <<"1", "0", "0", "0", "0", "0", "0", "0", "0", "0">>
Capacities == {SmallCapacity, LargeCapacity}

\* The capacities that bear on a call: vintages are parsed only when the
\* catalog is built from a fetched document, and the capacity tells
\* outcomes apart only when some range of the document fits one capacity
\* and not another.
BuildCapacities(self, data) ==
    IF /\ ~Truthy(self.products_cache)
       /\ Truthy(data) /\ "dataset" \in DOMAIN data.v
       /\ \E c \in Capacities :
             BuildRaises(data.v.dataset, c) # BuildRaises(data.v.dataset, SmallCapacity)
    THEN Capacities ELSE {SmallCapacity}

\* The answers the remote may give to the catalog fetch of a call: the
\* catalog is fetched only while the cache is falsy.
CatalogAnswers(self, docs) ==
    IF Truthy(self.products_cache) THEN {None} ELSE docs

\* The geo dicts list_geos builds from one product's document.
GeosOf(product, data) ==
    LET Build(kept) ==
            [i \in 1..Len(kept) |->
               [sumlev |-> Get(kept[i], "geoLevelDisplay", None),
                desc |-> Get(kept[i], "name", None),
                product |-> product.title,
                vintage |-> product.vintage,
                requires |-> Get(kept[i], "requires", None)]]
        Levels(fips) ==
            Build(SubSeqAt(fips, {i \in 1..Len(fips) :
                                    Truthy(Get(fips[i], "geoLevelDisplay", None))}))
    IN IF ~Truthy(data) \/ "fips" \notin DOMAIN data.v THEN <<>>
       ELSE Levels(data.v.fips)

\* The pattern filter of list_geos and list_variables on a text field.
TextFilter(flat, field, patterns, logic) ==
    IF Truthy(patterns)
    THEN SubSeqAt(flat, PatternKeep([i \in 1..Len(flat) |-> flat[i][field]],
                                    patterns, logic))
    ELSE flat

\* The fetches of one listing call: one per pinned product, in order.
SubFetches(self, resource, answers) ==
    [i \in 1..Len(self.products.v) |->
       [url |-> SubUrl(self, i, resource), response |-> answers[i]]]

\* A listing without the guard on the pinned products.
NoProductsUnchecked(self) == FALSE

\* The guard of list_geos and list_variables: no product is pinned.
NoProducts(self) == ~Truthy(self.products)

\* A fan-out that gives up on the first failed fetch.
FlatGeosAbort(self, answers) ==
    IF \E i \in 1..Len(self.products.v) : ~Truthy(answers[i]) THEN <<>>
    ELSE Flatten([i \in 1..Len(self.products.v) |->
                    GeosOf(self.heap[self.products.v[i]], answers[i])])

\* The fan-out of list_geos: the geo dicts of every pinned product, in order.
FlatGeos(self, answers) ==
    Flatten([i \in 1..Len(self.products.v) |->
               GeosOf(self.heap[self.products.v[i]], answers[i])])

\* A list_geos that refills the cached list in place, so that a pinned list
\* that is the same object (set_geos() pins the view itself) changes too.
StoreGeosViewInPlace(self, result_list) ==
    [self EXCEPT !.filtered_geos_cache = PyList(result_list),
                 !.geos = IF self.geos = self.filtered_geos_cache
                          THEN PyList(result_list) ELSE @]

\* self._filtered_geos_cache = result_list
StoreGeosView(self, result_list) ==
    [self EXCEPT !.filtered_geos_cache = PyList(result_list)]

\* sorted(list(set(sumlevs))) raises TypeError: a sumlev is unhashable, or
\* a str and a number are compared.
SumlevsRaise(sumlevs) ==
    \/ \E i \in 1..Len(sumlevs) : Unhashable(sumlevs[i])
    \/ /\ \E i \in 1..Len(sumlevs) : sumlevs[i].type = "str"
       /\ \E i \in 1..Len(sumlevs) : IsInt(sumlevs[i])

\* sorted(list(set(sumlevs))): the sumlevs are strings, or all numbers.
SortedSumlevs(sumlevs) ==
    IF \E i \in 1..Len(sumlevs) : IsInt(sumlevs[i])
    THEN SortedIntSet(sumlevs)
    ELSE SortedSet([i \in 1..Len(sumlevs) |-> sumlevs[i].v])

\* CensusData.list_geos
list_geos(self, to_dicts, patterns, logic, answers) ==
    LET Sumlevs(result_list) == [i \in 1..Len(result_list) |-> result_list[i].sumlev]
        Finish(result_list) ==
            IF ~to_dicts /\ SumlevsRaise(Sumlevs(result_list))
            THEN Outcome(StoreGeosView(self, result_list), None,
                         SubFetches(self, "/geography.json", answers), "TypeError")
            ELSE
            Outcome(StoreGeosView(self, result_list),
                    IF to_dicts THEN PyList(result_list)
                    ELSE PyList(SortedSumlevs(Sumlevs(result_list))),
                    SubFetches(self, "/geography.json", answers), "")
        Descs(flat) == [i \in 1..Len(flat) |-> flat[i].desc]
    IN IF NoProducts(self) THEN Outcome(self, PyList(<<>>), <<>>, "")
       ELSE IF FilterRaises(Descs(FlatGeos(self, answers)), patterns)
       THEN Outcome(self, None, SubFetches(self, "/geography.json", answers), "TypeError")
       ELSE IF PatternsRaise(patterns)
       THEN Outcome(self, PyList(<<>>), SubFetches(self, "/geography.json", answers), "")
       ELSE Finish(TextFilter(FlatGeos(self, answers), "desc", patterns, logic))

\* The success message of set_geos cannot be built for a pinned geo, which
\* raises TypeError: its desc is unhashable as a dict key, or its requires
\* is truthy and cannot be iterated or has an element that is no str (set,
\* sorted or str.join raises).
GeoMessageRaises(geo) ==
    \/ Unhashable(geo.desc)
    \/ /\ Truthy(geo.requires)
       /\ \/ IsInt(geo.requires)
          \/ /\ geo.requires.type = "list"
             /\ \E i \in 1..Len(geo.requires.v) : geo.requires.v[i].type # "str"

\* set_geos after self.geos is assigned: the message is built and printed.
GeosSet(self, fetched) ==
    Outcome(self, None, fetched,
            IF \E i \in 1..Len(self.geos.v) : GeoMessageRaises(self.geos.v[i])
            THEN "TypeError" ELSE "")

\* A set_geos that looks the identifiers up in the last-filtered view.
SetGeosFromView(self, sumlevs, answers) ==
    LET Pin(geos_to_set) ==
            IF Len(geos_to_set) = 0 THEN Outcome(self, None, <<>>, "")
            ELSE Outcome([self EXCEPT !.geos = PyList(geos_to_set)], None, <<>>, "")
        Match(view) ==
            Pin(SubSeqAt(view, {i \in 1..Len(view) :
                                  /\ ~IsNone(sumlevs)
                                  /\ view[i].sumlev.type = "str"
                                  /\ view[i].sumlev.v \in Range(AsList(sumlevs))}))
    IN IF IsNone(sumlevs) /\ Truthy(self.filtered_geos_cache)
       THEN Outcome([self EXCEPT !.geos = self.filtered_geos_cache], None, <<>>, "")
       ELSE Match(IF Truthy(self.filtered_geos_cache)
                  THEN self.filtered_geos_cache.v ELSE <<>>)

\* A set_geos that pins every record of the fresh listing.
SetGeosAll(self, sumlevs, answers) ==
    LET Pin(listed) ==
            IF Len(listed.ret.v) = 0 THEN Outcome(listed.self, None, listed.fetched, "")
            ELSE Outcome([listed.self EXCEPT !.geos = listed.ret], None,
                         listed.fetched, "")
    IN Pin(list_geos(self, TRUE, None, "all", answers))

\* CensusData.set_geos
set_geos(self, sumlevs, answers) ==
    LET Pin(listed, geos_to_set) ==
            IF Len(geos_to_set) = 0 THEN Outcome(listed.self, None, listed.fetched, "")
            ELSE GeosSet([listed.self EXCEPT !.geos = PyList(geos_to_set)],
                         listed.fetched)
        Match(listed) ==
            IF IsInt(sumlevs) /\ Len(listed.ret.v) > 0
            THEN Outcome(listed.self, None, listed.fetched, "TypeError")
            ELSE IF IsInt(sumlevs) THEN Pin(listed, <<>>)
            ELSE
            Pin(listed, SubSeqAt(listed.ret.v,
                                 {i \in 1..Len(listed.ret.v) :
                                    /\ listed.ret.v[i].sumlev.type = "str"
                                    /\ listed.ret.v[i].sumlev.v \in Range(AsList(sumlevs))}))
    IN IF IsNone(sumlevs)
       THEN IF ~Truthy(self.filtered_geos_cache)
            THEN Outcome(self, None, <<>>, "")
            ELSE GeosSet([self EXCEPT !.geos = self.filtered_geos_cache], <<>>)
       ELSE Match(list_geos(self, TRUE, None, "all", answers))

\* A list_variables that lets the name in through.
ReservedNamesButIn == {<<"G", "E", "O", "_", "I", "D">>, <<"f", "o", "r">>}

\* if name in ["GEO_ID", "for", "in"]: continue
ReservedNames == {<<"G", "E", "O", "_", "I", "D">>, <<"f", "o", "r">>, <<"i", "n">>}

\* The variable dicts list_variables builds from one product's document.
VariablesOf(product, data) ==
    LET Build(kept) ==
            [i \in 1..Len(kept) |->
               [name |-> kept[i].name,
                label |-> Get(kept[i].details, "label", None),
                concept |-> Get(kept[i].details, "concept", None),
                group |-> Get(kept[i].details, "group", PyStr(<<"N", "/", "A">>)),
                product |-> product.title,
                vintage |-> product.vintage]]
        Items(items) ==
            Build(SubSeqAt(items, {i \in 1..Len(items) :
                                     items[i].name \notin ReservedNames}))
    IN IF ~Truthy(data) \/ "variables" \notin DOMAIN data.v THEN <<>>
       ELSE Items(data.v.variables)

\* The fan-out of list_variables: the variable dicts of every pinned
\* product, in order.
FlatVariables(self, answers) ==
    Flatten([i \in 1..Len(self.products.v) |->
               VariablesOf(self.heap[self.products.v[i]], answers[i])])

\* CensusData.list_variables
list_variables(self, to_dicts, patterns, logic, answers) ==
    LET Finish(result_list) ==
            Outcome([self EXCEPT !.filtered_variables_cache = PyList(result_list)],
                    IF to_dicts THEN PyList(result_list)
                    ELSE PyList(SortedSet([i \in 1..Len(result_list) |->
                                              result_list[i].name])),
                    SubFetches(self, "/variables.json", answers), "")
        Labels(flat) == [i \in 1..Len(flat) |-> flat[i].label]
    IN IF NoProducts(self) THEN Outcome(self, PyList(<<>>), <<>>, "")
       ELSE IF FilterRaises(Labels(FlatVariables(self, answers)), patterns)
       THEN Outcome(self, None, SubFetches(self, "/variables.json", answers), "TypeError")
       ELSE IF PatternsRaise(patterns)
       THEN Outcome(self, PyList(<<>>), SubFetches(self, "/variables.json", answers), "")
       ELSE Finish(TextFilter(FlatVariables(self, answers), "label", patterns, logic))

\* A grouping key that tells products apart by title alone.
GroupKeyTitle(v) == <<v.product, <<>>>>

\* key = (var_info["product"], tuple(var_info["vintage"]))
GroupKey(v) == <<v.product, v.vintage>>

\* Two keys are the same key of the dict collapsed_vars: their products
\* are equal as Python values and their vintages as tuples of ints.
SameKey(k1, k2) == PyEq(k1[1], k2[1]) /\ k1[2] = k2[2]

\* Hashing a key raises TypeError: the product title is a list or a dict.
KeysRaise(vs) == \E i \in 1..Len(vs) : Unhashable(GroupKey(vs[i])[1])

\* The (product, vintage) keys of vars_to_set in order of first occurrence.
RECURSIVE GroupKeys(_)
GroupKeys(vs) ==
    LET Add(before, key) ==
            IF \E i \in 1..Len(before) : SameKey(before[i], key)
            THEN before ELSE Append(before, key)
    IN IF Len(vs) = 0 THEN <<>>
       ELSE Add(GroupKeys(SubSeq(vs, 1, Len(vs) - 1)), GroupKey(vs[Len(vs)]))

\* The collapse of set_variables: one group per (product, vintage) key, its
\* names in the order of vars_to_set.
Collapse(vars_to_set) ==
    LET Group(key, mine) ==
            [product |-> key[1], vintage |-> key[2],
             names |-> [i \in 1..Len(mine) |-> mine[i].name]]
        Groups(keys) ==
            [k \in 1..Len(keys) |->
               Group(keys[k], SubSeqAt(vars_to_set,
                                       {i \in 1..Len(vars_to_set) :
                                          SameKey(GroupKey(vars_to_set[i]), keys[k])}))]
    IN Groups(GroupKeys(vars_to_set))

\* CensusData.set_variables
set_variables(self, names, answers) ==
    LET Pin(listed, vars_to_set) ==
            IF Len(vars_to_set) = 0 THEN Outcome(listed.self, None, listed.fetched, "")
            ELSE IF KeysRaise(vars_to_set)
            THEN Outcome(listed.self, None, listed.fetched, "TypeError")
            ELSE Outcome([listed.self EXCEPT !.variables = PyList(Collapse(vars_to_set))],
                         None, listed.fetched, "")
        Match(listed) ==
            IF IsInt(names) /\ Len(listed.ret.v) > 0
            THEN Outcome(listed.self, None, listed.fetched, "TypeError")
            ELSE IF IsInt(names) THEN Pin(listed, <<>>)
            ELSE
            Pin(listed, SubSeqAt(listed.ret.v,
                                 {i \in 1..Len(listed.ret.v) :
                                    listed.ret.v[i].name \in Range(AsList(names))}))
    IN IF IsNone(names)
       THEN IF ~Truthy(self.filtered_variables_cache)
            THEN Outcome(self, None, <<>>, "")
            ELSE Pin(Outcome(self, None, <<>>, ""), self.filtered_variables_cache.v)
       ELSE Match(list_variables(self, TRUE, None, "all", answers))

-----------------------------------------------------------------------------
(* The arguments the calls are made with.                                  *)

YearVals == 1..MaxYear

P_acs == <<"a", "c", "s">>
P_s == <<"s">>
P_state == <<"s", "t", "a", "t", "e">>
P_t == <<"t">>
P_inc == <<"i", "n", "c">>
P_e == <<"(", "e", ")">>
P_bad == <<"(">>

Logics == {"all", "any"}

ListArgs(yrs, patterns, to_dicts, logic) ==
    [years |-> yrs, patterns |-> patterns, to_dicts |-> to_dicts, logic |-> logic]

\* The calls of the whole-object specification.
SetYearsArgs == {PyInt(y) : y \in YearVals}
ListProductsArgs ==
    {ListArgs(y, p, TRUE, "all") :
        y \in {None, PyInt(MaxYear)},
        p \in {None, PyStr(P_state), PyList(<<P_acs, P_bad>>)}}
        \cup {ListArgs(None, None, FALSE, "any")}
TitleArgs == {None, PyStr(T_Acs5), PyList(<<T_Nope>>)}
ListGeosArgs ==
    {ListArgs(None, p, TRUE, "all") :
        p \in {None, PyStr(P_t), PyList(<<P_state, P_bad>>)}}
        \cup {ListArgs(None, None, FALSE, "any")}
SumlevArgs == {None, PyStr(L040), PyList(<<L050, L999>>)}
ListVariablesArgs ==
    {ListArgs(None, p, TRUE, "all") :
        p \in {None, PyStr(P_inc), PyList(<<P_e, P_bad>>)}}
        \cup {ListArgs(None, None, FALSE, "any")}
NameArgs == {None, PyStr(N_B01), PyList(<<N_A01, <<"f", "o", "r">>>>)}
CatalogDocs == {None, DocNoProducts, DocA}

-----------------------------------------------------------------------------
(* The state machine: one action per public method.                        *)

NoArgs == ListArgs(None, None, FALSE, "all")

\* The object takes the state the call leaves, and the call is recorded:
\* its arguments, what it returned, fetched and raised, and whether the
\* catalog cache had been assigned when it was made.
Becomes(op, args, ids, out) ==
    /\ years' = out.self.years
    /\ products' = out.self.products
    /\ geos' = out.self.geos
    /\ variables' = out.self.variables
    /\ products_cache' = out.self.products_cache
    /\ filtered_products_cache' = out.self.filtered_products_cache
    /\ filtered_geos_cache' = out.self.filtered_geos_cache
    /\ filtered_variables_cache' = out.self.filtered_variables_cache
    /\ heap' = out.self.heap
    /\ lastCall' = [op |-> op, years |-> args.years, patterns |-> args.patterns,
                    to_dicts |-> args.to_dicts, logic |-> args.logic, ids |-> ids,
                    ret |-> out.ret, fetched |-> out.fetched, raised |-> out.raised,
                    cached |-> ~IsNone(products_cache)]

Init ==
    /\ years = InitSelf.years
    /\ products = InitSelf.products
    /\ geos = InitSelf.geos
    /\ variables = InitSelf.variables
    /\ products_cache = InitSelf.products_cache
    /\ filtered_products_cache = InitSelf.filtered_products_cache
    /\ filtered_geos_cache = InitSelf.filtered_geos_cache
    /\ filtered_variables_cache = InitSelf.filtered_variables_cache
    /\ heap = InitSelf.heap
    /\ lastCall = [op |-> "__init__", years |-> None, patterns |-> None,
                   to_dicts |-> FALSE, logic |-> "all", ids |-> None,
                   ret |-> None, fetched |-> <<>>, raised |-> "", cached |-> FALSE]

SetYearsWith(argset) ==
    \E yrs \in argset :
        Becomes("set_years", ListArgs(yrs, None, FALSE, "all"), None,
                set_years(Self, yrs))

ListProductsWith(argset, docs) ==
    \E data \in CatalogAnswers(Self, docs) :
      \E capacity \in BuildCapacities(Self, data), a \in argset :
        Becomes("list_products", a, None,
                list_products(Self, a.years, a.patterns, a.to_dicts, a.logic, data,
                              capacity))

SetProductsWith(argset, docs) ==
    \E titles \in argset :
        \E data \in (IF IsNone(titles) THEN {None} ELSE CatalogAnswers(Self, docs)) :
          \E capacity \in BuildCapacities(Self, data) :
            Becomes("set_products", NoArgs, titles,
                    set_products(Self, titles, data, capacity))

ListGeosWith(argset, mayFail) ==
    \E a \in argset, answers \in Answers(Self, "/geography.json", mayFail) :
        Becomes("list_geos", a, None,
                list_geos(Self, a.to_dicts, a.patterns, a.logic, answers))

SetGeosWith(argset, mayFail) ==
    \E sumlevs \in argset :
        \E answers \in (IF IsNone(sumlevs) THEN {<<>>}
                        ELSE Answers(Self, "/geography.json", mayFail)) :
            Becomes("set_geos", NoArgs, sumlevs, set_geos(Self, sumlevs, answers))

ListVariablesWith(argset, mayFail) ==
    \E a \in argset, answers \in Answers(Self, "/variables.json", mayFail) :
        Becomes("list_variables", a, None,
                list_variables(Self, a.to_dicts, a.patterns, a.logic, answers))

SetVariablesWith(argset, mayFail) ==
    \E names \in argset :
        \E answers \in (IF IsNone(names) THEN {<<>>}
                        ELSE Answers(Self, "/variables.json", mayFail)) :
            Becomes("set_variables", NoArgs, names, set_variables(Self, names, answers))

SetYears == SetYearsWith(SetYearsArgs)
ListProducts == ListProductsWith(ListProductsArgs, CatalogDocs)
SetProducts == SetProductsWith(TitleArgs, CatalogDocs)
ListGeos == ListGeosWith(ListGeosArgs, FALSE)
SetGeos == SetGeosWith(SumlevArgs, FALSE)
ListVariables == ListVariablesWith(ListVariablesArgs, FALSE)
SetVariables == SetVariablesWith(NameArgs, FALSE)

Next ==
    \/ SetYears
    \/ ListProducts
    \/ SetProducts
    \/ ListGeos
    \/ SetGeos
    \/ ListVariables
    \/ SetVariables

Spec == Init /\ [][Next]_vars

-----------------------------------------------------------------------------
(* The listings specification: products are pinned from either catalog,    *)
(* and list_geos and list_variables are called with every combination of   *)
(* failing and answering sub-resource fetches.                             *)

PinAllArgs == {ListArgs(y, None, TRUE, "all") : y \in {None} \cup {PyInt(y) : y \in YearVals}}
ListingArgs(valid, other) ==
    {ListArgs(None, None, d, "all") : d \in BOOLEAN}
        \cup {ListArgs(None, p, TRUE, l) :
                 p \in {PyStr(valid), PyList(<<other, valid>>), PyList(<<valid, P_bad>>)},
                 l \in Logics}

ListProductsToPin == ListProductsWith(PinAllArgs, {DocA, DocB})
SetProductsListed == SetProductsWith({None}, {DocA, DocB})
ListGeosPartial == ListGeosWith(ListingArgs(P_state, P_t), TRUE)
ListVariablesPartial == ListVariablesWith(ListingArgs(P_inc, P_e), TRUE)
SetVariablesListed == SetVariablesWith({None, PyList(<<<<"i", "n">>, N_B02, N_B01>>)}, TRUE)

NextListings ==
    \/ ListProductsToPin
    \/ SetProductsListed
    \/ ListGeosPartial
    \/ ListVariablesPartial

SpecListings == Init /\ [][NextListings]_vars

\* The variables specification: the listings specification without the
\* geographies and with set_variables.
NextVariables ==
    \/ ListProductsToPin
    \/ SetProductsListed
    \/ ListVariablesPartial
    \/ SetVariablesListed

SpecVariables == Init /\ [][NextVariables]_vars

-----------------------------------------------------------------------------
(* The products specification: years are set from every kind of argument,  *)
(* and products are listed and pinned by year, pattern and title over      *)
(* either catalog.                                                         *)

P_cps == <<"c", "p", "s">>

SetYearsRichArgs ==
    {PyInt(y) : y \in 0..MaxYear}
        \cup {PyList(<<>>), PyList(<<PyInt(MaxYear), PyInt(1), PyInt(1)>>),
              PyStr(<<"1">>), PyList(<<PyInt(1), PyStr(<<"1">>)>>),
              PyBool(TRUE), PyList(<<PyInt(1), PyBool(TRUE)>>)}
ListProductsRichArgs ==
    {ListArgs(y, p, TRUE, l) :
        y \in {None, PyInt(MaxYear), PyList(<<>>),
               PyList(<<PyInt(MaxYear), PyInt(MaxYear + 1)>>)},
        p \in {PyList(<<P_acs, P_s>>), PyList(<<P_cps, P_acs>>)},
        l \in Logics}
        \cup {ListArgs(y, p, TRUE, "all") :
                 y \in {None, PyInt(MaxYear), PyList(<<>>),
                        PyList(<<PyInt(MaxYear), PyInt(MaxYear + 1)>>)},
                 p \in {None, PyStr(P_acs)}}
        \cup {ListArgs(None, p, FALSE, "any") :
                 p \in {None, PyList(<<P_acs, P_s>>)}}
        \cup {ListArgs(y, None, TRUE, "all") :
                 y \in {PyBool(TRUE), PyBool(FALSE),
                        PyList(<<PyInt(1), PyList(<<>>)>>)}}
RichDocs == {DocNoProducts, DocA, DocB, DocHuge}
TitleRichArgs ==
    {None, PyStr(T_Acs5), PyList(<<T_Nope, T_Acs5>>), PyList(<<T_Cps, T_Acs5>>)}

SetYearsRich == SetYearsWith(SetYearsRichArgs)
ListProductsRich == ListProductsWith(ListProductsRichArgs, RichDocs)
SetProductsRich == SetProductsWith(TitleRichArgs, RichDocs)

NextProducts ==
    \/ SetYearsRich
    \/ ListProductsRich
    \/ SetProductsRich

SpecProducts == Init /\ [][NextProducts]_vars

-----------------------------------------------------------------------------
(* The vintage specification: _parse_vintage is applied to every raw value *)
(* of a bounded set of ints, bools, None and strings, to the spellings     *)
(* int() takes or refuses, and to ranges whose end is beyond sys.maxsize   *)
(* or beyond the digits int() reads.                                       *)

MaxRawLen == 3

VintageChars == {"1", "2", "-", "a"}

\* The strings over VintageChars of at most n characters.
RECURSIVE StringsUpTo(_)
StringsUpTo(n) ==
    IF n = 0 THEN {<<>>}
    ELSE StringsUpTo(n - 1)
            \cup {Append(s, c) : s \in StringsUpTo(n - 1), c \in VintageChars}

\* Spellings of a number with whitespace, a sign or underscores.
IntSpellings ==
    {<<" ", "1">>, <<"1", " ">>, <<" ", "1", " ">>, <<"1", " ", "2">>,
     <<"+", "1">>, <<"+", " ", "1">>, <<"+", "+", "1">>, <<"1", "+">>,
     <<"1", "_", "0">>, <<"1", "_", "_", "0">>, <<"_", "1">>, <<"1", "_">>,
     <<"1", "-", "+", "2">>, <<" ", "1", "-", " ", "2">>, <<"1", " ", "-", "2">>,
     <<"1", "_", "0", "-", "1", "_", "2">>, <<"+", "-", "1">>, <<" ">>}

RawVintages ==
    {None, PyBool(TRUE), PyBool(FALSE)}
        \cup {PyInt(n) : n \in (0 - 1)..(MaxYear + 10)}
        \cup {PyStr(s) : s \in StringsUpTo(MaxRawLen)}
        \cup {PyStr(<<"1", "2">> \o s) : s \in StringsUpTo(1)}
        \cup {PyStr(s) : s \in IntSpellings}
        \cup {PyStr(<<"0", "-">> \o SsizeMax), PyStr(<<"1", "-">> \o SsizeMax),
              PyStr(<<"1", "-", "2", "1", "4", "7", "4", "8", "3", "6", "4", "7">>),
              PyStr(<<"1", "-">> \o BeyondSsize),
              PyStr(<<"+", "1", "-", " ", "+", "0">> \o BeyondSsize),
              PyStr(<<"1", "-">> \o BeyondIntMax), PyStr(BeyondIntMax)}

ParseVintageCall ==
    \E raw \in RawVintages, capacity \in Capacities :
        Becomes("_parse_vintage", NoArgs, raw,
                LET Returns(out) == Outcome(Self, out.ret, <<>>, out.raised)
                IN Returns(parse_vintage(raw, capacity)))

NextVintage == ParseVintageCall

SpecVintage == Init /\ [][NextVintage]_vars

-----------------------------------------------------------------------------
(* The end-to-end specification: the calls are made in the order of the    *)
(* walk from years to variables, each once, every fetch answering.         *)

P_age == <<"a", "g", "e">>

After(op) == lastCall.op = op

WalkSetYears ==
    After("__init__") /\ SetYearsWith({PyList(<<PyInt(y)>>) : y \in YearVals})
WalkListProducts ==
    /\ After("set_years")
    /\ ListProductsWith({ListArgs(None, PyStr(p), d, l) :
                            p \in {P_acs, P_cps, P_s}, d \in BOOLEAN, l \in Logics},
                        {DocA, DocB})
WalkSetProducts ==
    After("list_products") /\ SetProductsWith({None}, {DocA, DocB})
WalkListGeos ==
    /\ After("set_products")
    /\ ListGeosWith({ListArgs(None, None, d, "all") : d \in BOOLEAN}, FALSE)
WalkSetGeos ==
    After("list_geos") /\ SetGeosWith({PyStr(L040)}, FALSE)
WalkListVariables ==
    /\ After("set_geos")
    /\ ListVariablesWith({ListArgs(None, PyStr(p), d, l) :
                             p \in {P_inc, P_age, P_e}, d \in BOOLEAN, l \in Logics},
                         FALSE)
WalkSetVariables ==
    /\ After("list_variables")
    /\ SetVariablesWith({PyStr(n) : n \in {N_B01, N_B02, N_A01}}, FALSE)

NextEndToEnd ==
    \/ WalkSetYears
    \/ WalkListProducts
    \/ WalkSetProducts
    \/ WalkListGeos
    \/ WalkSetGeos
    \/ WalkListVariables
    \/ WalkSetVariables

SpecEndToEnd == Init /\ [][NextEndToEnd]_vars

-----------------------------------------------------------------------------
(* The claims.                                                             *)

ListOps == {"list_products", "list_geos", "list_variables"}

\* The pinned product dicts, by value.
PinnedProducts == [i \in 1..Len(products.v) |-> heap[products.v[i]]]

\* The pinned selection: years, products (the list and the dicts in it),
\* geos and variables.
Pinned == <<years, products, PinnedProducts, geos, variables>>

\* The last-filtered view a listing method writes is left as it was.
ViewUnchanged(op) ==
    CASE op = "list_products" -> UNCHANGED filtered_products_cache
      [] op = "list_geos" -> UNCHANGED filtered_geos_cache
      [] OTHER -> UNCHANGED filtered_variables_cache

\* Some pattern of a call's pattern list is an invalid regular expression.
HasInvalidPattern(call) ==
    /\ Truthy(call.patterns)
    /\ \E i \in 1..Len(AsList(call.patterns)) : ReError(AsList(call.patterns)[i])

\* The call fetched the catalog.
FetchedCatalog(call) ==
    \E i \in 1..Len(call.fetched) : call.fetched[i].url = CatalogURL

\* C1: whenever the pinned geos or the pinned variables are non-empty, the
\* pinned products are non-empty.
C1_SelectionNeedsProducts ==
    (Truthy(geos) \/ Truthy(variables)) => Truthy(products)

\* The products of a catalog that pass the year filter of set_products.
YearPassing(h, cache, yrs) ==
    IF ~Truthy(cache) THEN {}
    ELSE {r \in Range(cache.v) :
            \/ ~Truthy(yrs)
            \/ \E y \in Range(h[r].vintage) :
                  \E e \in Range(yrs.v) : IsInt(e) /\ NumOf(e) = y}

\* None of the titles is the title of a product of the year-filtered catalog.
ResolvesToNothing(h, cache, yrs, titles) ==
    \A r \in YearPassing(h, cache, yrs) :
        \A i \in 1..Len(AsList(titles)) : h[r].title # PyStr(AsList(titles)[i])

\* C2: a set_products call with explicit titles that resolve to no product
\* of the year-filtered catalog leaves years, products, geos and variables
\* as they were.
C2_UnresolvedTitlesKeepState ==
    [][(/\ lastCall'.op = "set_products"
        /\ ~IsNone(lastCall'.ids)
        /\ ResolvesToNothing(heap', products_cache', years, lastCall'.ids))
       => Pinned' = Pinned]_vars

\* C3: once a catalog fetch has succeeded (the cache has been assigned), no
\* later call fetches the catalog again or reassigns the cache.
C3_CatalogFetchedOnce ==
    [][~IsNone(products_cache)
       => (products_cache' = products_cache /\ ~FetchedCatalog(lastCall'))]_vars

\* What a list_products call returned, as the titles of its products.
ReturnedTitles(call, h) ==
    IF call.to_dicts THEN [i \in 1..Len(call.ret.v) |-> h[call.ret.v[i]].title]
    ELSE call.ret.v

\* C4: set_products() without titles, called right after a
\* list_products call or right after construction, pins exactly the products
\* that call returned, and leaves products unchanged when it returned nothing
\* or no list_products call was made.
C4_PinsLastListing ==
    [][(/\ lastCall'.op = "set_products"
        /\ IsNone(lastCall'.ids)
        /\ lastCall.op \in {"list_products", "__init__"})
       => IF lastCall.op = "list_products" /\ Len(lastCall.ret.v) > 0
          THEN /\ lastCall.to_dicts => products'.v = lastCall.ret.v
               /\ [i \in 1..Len(products'.v) |-> heap'[products'.v[i]].title]
                     = ReturnedTitles(lastCall, heap)
          ELSE products' = products]_vars

\* C5: list_geos and list_variables called while no product is pinned return
\* an empty list, fetch nothing, and leave the pinned geos and variables and
\* both last-filtered views unchanged.
C5_NoProductsNoListing ==
    [][(lastCall'.op \in {"list_geos", "list_variables"} /\ ~Truthy(products))
       => /\ lastCall'.ret = PyList(<<>>)
          /\ lastCall'.fetched = <<>>
          /\ UNCHANGED <<geos, variables, filtered_geos_cache,
                         filtered_variables_cache>>]_vars

\* list_geos was called on an object without pinned products.
C5_Witness ==
    /\ lastCall.op = "list_geos"
    /\ ~Truthy(products)
    /\ IsNone(filtered_geos_cache)
    /\ Truthy(products_cache)

\* C6: a listing call given a pattern list with an invalid pattern returns an
\* empty result and changes neither the pinned selection nor its own
\* last-filtered view.
C6_InvalidPatternFailsClosed ==
    [][(lastCall'.op \in ListOps /\ HasInvalidPattern(lastCall'))
       => /\ lastCall'.ret = PyList(<<>>)
          /\ Pinned' = Pinned
          /\ ViewUnchanged(lastCall'.op)]_vars

\* list_geos was given a valid pattern followed by an invalid one while a
\* non-empty view was held.
C6_Witness ==
    /\ lastCall.op = "list_geos"
    /\ lastCall.patterns = PyList(<<P_state, P_bad>>)
    /\ Truthy(products)
    /\ Truthy(filtered_geos_cache)

\* The positions of the pinned products whose fetch answered with a document
\* holding the key.
Succeeded(call, key) ==
    {i \in 1..Len(call.fetched) :
        /\ Truthy(call.fetched[i].response)
        /\ key \in DOMAIN call.fetched[i].response.v}

\* The geographies a call's answering products expose: level code, name and
\* the product's title and vintage.
ExposedGeos(call, pinned) ==
    UNION {{<<lvl.geoLevelDisplay, Get(lvl, "name", None), pinned[i].title,
              pinned[i].vintage>> :
               lvl \in {l \in Range(call.fetched[i].response.v.fips) :
                          "geoLevelDisplay" \in DOMAIN l}} :
           i \in Succeeded(call, "fips")}

\* The variables a call's answering products expose, reserved names aside.
ExposedVariables(call, pinned) ==
    UNION {{<<it.name, Get(it.details, "label", None), pinned[i].title,
              pinned[i].vintage>> :
               it \in {x \in Range(call.fetched[i].response.v.variables) :
                         x.name \notin ReservedNames}} :
           i \in Succeeded(call, "variables")}

\* C7: list_geos and list_variables without patterns, whichever fetches fail,
\* raise nothing and list exactly the records of the products whose fetch
\* succeeded.
C7_FailuresAreIsolated ==
    [][(/\ lastCall'.op \in {"list_geos", "list_variables"}
        /\ ~Truthy(lastCall'.patterns)
        /\ Truthy(products))
       => /\ lastCall'.raised = ""
          /\ Len(lastCall'.fetched) = Len(products.v)
          /\ IF lastCall'.op = "list_geos"
             THEN /\ {<<g.sumlev, g.desc, g.product, g.vintage>> :
                        g \in Range(filtered_geos_cache'.v)}
                       = ExposedGeos(lastCall', PinnedProducts)
                  /\ Range(lastCall'.ret.v)
                       = IF lastCall'.to_dicts THEN Range(filtered_geos_cache'.v)
                         ELSE {g.sumlev.v : g \in Range(filtered_geos_cache'.v)}
             ELSE /\ {<<v.name, v.label, v.product, v.vintage>> :
                        v \in Range(filtered_variables_cache'.v)}
                       = ExposedVariables(lastCall', PinnedProducts)
                  /\ Range(lastCall'.ret.v)
                       = IF lastCall'.to_dicts THEN Range(filtered_variables_cache'.v)
                         ELSE {v.name : v \in Range(filtered_variables_cache'.v)}]_vars

\* list_geos over several pinned products, the first fetch failing and a
\* later one answering: the listing holds the answering product's records.
C7_Witness ==
    /\ lastCall.op = "list_geos"
    /\ ~Truthy(lastCall.patterns)
    /\ Len(lastCall.fetched) > 1
    /\ ~Truthy(lastCall.fetched[1].response)
    /\ Truthy(lastCall.fetched[2].response)
    /\ Len(lastCall.ret.v) > 0

\* C8: a listing of dicts holds one record per natural key (level code for
\* list_geos, name for list_variables), however many pinned products expose
\* the key.
C8_OneRecordPerKey ==
    (lastCall.op \in {"list_geos", "list_variables"} /\ lastCall.to_dicts)
    => \A i, j \in 1..Len(lastCall.ret.v) :
          (IF lastCall.op = "list_geos"
           THEN lastCall.ret.v[i].sumlev = lastCall.ret.v[j].sumlev
           ELSE lastCall.ret.v[i].name = lastCall.ret.v[j].name)
          => i = j

\* C9: no call changes, adds or removes a field of a product record that is
\* in the catalog cache.
C9_CachedRecordsImmutable ==
    [][Truthy(products_cache)
       => \A r \in Range(products_cache.v) : heap'[r] = heap[r]]_vars

\* C10: once a set_* call has pinned something, no listing call changes the
\* pinned years, products (list and records), geos or variables.
C10_ListingKeepsPinned ==
    [][(/\ lastCall'.op \in ListOps
        /\ (Truthy(products) \/ Truthy(geos) \/ Truthy(variables)))
       => Pinned' = Pinned]_vars

\* list_geos has stored a new view while the pinned geos are the list that
\* set_geos() took from the previous view.
C10_Witness ==
    /\ lastCall.op = "list_geos"
    /\ Truthy(geos)
    /\ Truthy(variables)
    /\ filtered_geos_cache # geos
    /\ ~IsNone(filtered_geos_cache)

\* The years a list of Python ints holds.
IntsOf(l) ==
    IF l.type = "list"
    THEN {NumOf(l.v[i]) : i \in {j \in 1..Len(l.v) : IsInt(l.v[j])}}
    ELSE {}

\* The target set of a list_products call as claimed: the years argument
\* when it is given, else the object's years, else none.
ClaimedTarget(call, yrs) ==
    IF ~IsNone(call.years)
    THEN [applies |-> TRUE,
          years |-> IF IsInt(call.years) THEN {NumOf(call.years)}
                    ELSE IntsOf(call.years)]
    ELSE IF ~IsNone(yrs) THEN [applies |-> TRUE, years |-> IntsOf(yrs)]
    ELSE [applies |-> FALSE, years |-> {}]

\* The cached products a target set lets through.
PassingTarget(h, cache, target) ==
    {r \in Range(cache.v) :
        target.applies => Range(h[r].vintage) \cap target.years # {}}

\* C11: list_products without patterns, when it returns, returns and stores
\* as its view exactly the cached products whose vintage intersects the target set, which
\* is the years argument whenever it is given, else the object's years; with
\* neither, every cached product is returned.
C11_YearTargetFilter ==
    [][(/\ lastCall'.op = "list_products"
        /\ lastCall'.raised = ""
        /\ ~Truthy(lastCall'.patterns)
        /\ ~IsNone(products_cache'))
       => /\ Range(filtered_products_cache'.v)
               = PassingTarget(heap', products_cache', ClaimedTarget(lastCall', years))
          /\ ReturnedTitles(lastCall', heap')
               = [i \in 1..Len(filtered_products_cache'.v) |->
                    heap'[filtered_products_cache'.v[i]].title]]_vars

\* The products a list_products call with the same years and no patterns
\* lists on the object as the call left it: the year-passing products.
YearPassingOf(self, call) ==
    list_products(self, call.years, None, TRUE, "all", None, SmallCapacity).ret.v

\* A title is matched by the patterns of a call under its logic.
TitleMatched(title, call) ==
    /\ Truthy(title)
    /\ IF call.logic = "all"
       THEN \A i \in 1..Len(AsList(call.patterns)) :
               ReSearch(AsList(call.patterns)[i], title.v)
       ELSE \E i \in 1..Len(AsList(call.patterns)) :
               ReSearch(AsList(call.patterns)[i], title.v)

\* C12: list_products with a non-empty list of valid patterns, over a
\* catalog it could build, returns and stores as its view, exactly the year-passing products whose title every
\* pattern matches (logic all) or some pattern matches (logic any), ignoring
\* case; a product without a title is never among them.
C12_PatternLogic ==
    [][(/\ lastCall'.op = "list_products"
        /\ lastCall'.raised = ""
        /\ Truthy(lastCall'.patterns)
        /\ ~HasInvalidPattern(lastCall')
        /\ ~IsNone(products_cache'))
       => /\ LET Matching(passing) ==
                     SubSeqAt(passing,
                              {i \in 1..Len(passing) :
                                 TitleMatched(heap'[passing[i]].title, lastCall')})
             IN filtered_products_cache'.v = Matching(YearPassingOf(Self', lastCall'))
          /\ ReturnedTitles(lastCall', heap')
               = [i \in 1..Len(filtered_products_cache'.v) |->
                    heap'[filtered_products_cache'.v[i]].title]
          /\ \A i \in 1..Len(filtered_products_cache'.v) :
                Truthy(heap'[filtered_products_cache'.v[i]].title)]_vars

\* list_products with two patterns under logic any has listed two products
\* of a catalog of three, one of which has no title and one of which only
\* the second pattern matches.
C12_Witness ==
    /\ lastCall.op = "list_products"
    /\ lastCall.raised = ""
    /\ lastCall.patterns = PyList(<<P_acs, P_s>>)
    /\ lastCall.logic = "any"
    /\ IsNone(lastCall.years) /\ IsNone(years)
    /\ Len(products_cache.v) = 3
    /\ Len(lastCall.ret.v) = 2

\* C13: set_products with titles of which at least one is the title of a
\* product of the catalog filtered by the object's years pins exactly the
\* products of that filtered catalog whose title is one of the titles, every
\* vintage of a title included, and raises nothing.
C13_PinsResolvedTitles ==
    [][(/\ lastCall'.op = "set_products"
        /\ ~IsNone(lastCall'.ids)
        /\ ~ResolvesToNothing(heap', products_cache', years, lastCall'.ids))
       => /\ lastCall'.raised = ""
          /\ Range(products'.v)
               = {r \in YearPassing(heap', products_cache', years) :
                    \E i \in 1..Len(AsList(lastCall'.ids)) :
                       heap'[r].title = PyStr(AsList(lastCall'.ids)[i])}]_vars

\* set_products was given a title no product has and a title two products
\* of different vintages have, and has pinned both of these.
C13_Witness ==
    /\ lastCall.op = "set_products"
    /\ lastCall.ids = PyList(<<T_Nope, T_Acs5>>)
    /\ Len(products.v) = 2
    /\ heap[products.v[1]].vintage # heap[products.v[2]].vintage

\* The identifiers of a set_geos or set_variables call.
IdsOf(call) == Range(AsList(call.ids))

\* The (name, product, vintage) triples the pinned variable groups hold.
PinnedNames(groups) ==
    UNION {{<<groups.v[k].names[n], groups.v[k].product, groups.v[k].vintage>> :
              n \in 1..Len(groups.v[k].names)} : k \in 1..Len(groups.v)}

\* C14: set_geos and set_variables with explicit identifiers pin exactly the
\* records of a fresh unfiltered listing over the pinned products (what the
\* fetches of the call answered) whose level code, respectively name, is one
\* of the identifiers; identifiers nothing matches are dropped, and when no
\* record matches at all the pinned geos, respectively variables, stay as
\* they were.
C14_MatchesFreshListing ==
    [][/\ (lastCall'.op = "set_geos" /\ ~IsNone(lastCall'.ids))
          => LET Fresh(matched) ==
                     IF matched = {} THEN geos' = geos
                     ELSE {<<g.sumlev, g.desc, g.product, g.vintage>> :
                             g \in Range(geos'.v)} = matched
             IN Fresh({e \in ExposedGeos(lastCall', PinnedProducts) :
                         e[1].v \in IdsOf(lastCall')})
       /\ (lastCall'.op = "set_variables" /\ ~IsNone(lastCall'.ids))
          => LET Fresh(matched) ==
                     IF matched = {} THEN variables' = variables
                     ELSE PinnedNames(variables')
                            = {<<e[1], e[3], e[4]>> : e \in matched}
             IN Fresh({e \in ExposedVariables(lastCall', PinnedProducts) :
                         e[1] \in IdsOf(lastCall')})]_vars

\* set_geos was given a level of the pinned products and a level none of them
\* has, and has pinned the record of the first.
C14_Witness ==
    /\ lastCall.op = "set_geos"
    /\ lastCall.ids = PyList(<<L050, L999>>)
    /\ Len(geos.v) = 1
    /\ geos.v[1].sumlev = PyStr(L050)
    /\ Len(lastCall.fetched) = 2

\* Two calls were given the same arguments.
SameArguments(a, b) ==
    /\ a.years = b.years
    /\ a.patterns = b.patterns
    /\ a.to_dicts = b.to_dicts
    /\ a.logic = b.logic

\* C15: of two consecutive list_products calls with identical arguments, both
\* made once the catalog cache has been assigned, the second returns what
\* the first returned and leaves the last-filtered products view the first
\* left.
C15_ListingIsIdempotent ==
    [][(/\ lastCall.op = "list_products"
        /\ lastCall'.op = "list_products"
        /\ SameArguments(lastCall, lastCall')
        /\ lastCall.cached)
       => /\ lastCall'.ret = lastCall.ret
          /\ filtered_products_cache' = filtered_products_cache]_vars

\* C17: whenever the object's years are set they are a non-empty list of
\* positive integers in strictly ascending order (so distinct and sorted).
C17_YearsWellFormed ==
    ~IsNone(years)
    => /\ Len(years.v) > 0
       /\ \A i \in 1..Len(years.v) : years.v[i].type = "int" /\ years.v[i].v > 0
       /\ \A i \in 1..(Len(years.v) - 1) : years.v[i].v < years.v[i + 1].v

\* What a raw vintage denotes as claimed: the year of a positive integer or
\* of a string int() reads as a number, the years from a to b of a range
\* string 'a-b', and nothing for any other value.
DenotedYears(raw) ==
    LET OfText(parts) ==
            IF Len(parts) = 1 /\ IntParses(parts[1]) THEN <<IntValue(parts[1])>>
            ELSE IF Len(parts) = 2 /\ IntParses(parts[1]) /\ IntParses(parts[2])
            THEN RangeList(IntValue(parts[1]), IntValue(parts[2]) + 1)
            ELSE <<>>
    IN CASE raw.type = "int" -> IF raw.v > 0 THEN <<raw.v>> ELSE <<>>
         [] raw.type = "str" -> OfText(Split(raw.v, "-"))
         [] OTHER -> <<>>

\* A raw value whose numbers are short enough for its years to be listed.
Listable(raw) ==
    raw.type = "str"
    => \A i \in 1..Len(Split(raw.v, "-")) : Len(Split(raw.v, "-")[i]) <= MaxRawLen + 2

\* C18: _parse_vintage raises nothing, and returns the year of a single year,
\* every year from a to b of a range string 'a-b', and the empty list for an
\* empty, non-numeric or malformed value.
C18_ParseVintageTotal ==
    lastCall.op = "_parse_vintage"
    => /\ lastCall.raised = ""
       /\ Listable(lastCall.ids) => lastCall.ret = PyList(DenotedYears(lastCall.ids))

\* The names the claim reserves.
GeoIdForIn == {<<"G", "E", "O", "_", "I", "D">>, <<"f", "o", "r">>, <<"i", "n">>}

\* The names a list_variables call returned.
ReturnedNames(call) ==
    IF call.to_dicts THEN {call.ret.v[i].name : i \in 1..Len(call.ret.v)}
    ELSE Range(call.ret.v)

\* The names of the variables documents a call was answered with.
AnsweredNames(call) ==
    UNION {{x.name : x \in Range(call.fetched[i].response.v.variables)} :
             i \in Succeeded(call, "variables")}

\* C16: GEO_ID, for and in are never a name returned by list_variables, held
\* in the last-filtered variables view or pinned by set_variables, whatever
\* the variables documents hold; and list_variables without patterns lists
\* every other name of the documents its fetches answered with.
C16_ReservedNamesExcluded ==
    [][/\ ~IsNone(filtered_variables_cache')
          => \A i \in 1..Len(filtered_variables_cache'.v) :
                filtered_variables_cache'.v[i].name \notin GeoIdForIn
       /\ \A k \in 1..Len(variables'.v) :
             Range(variables'.v[k].names) \cap GeoIdForIn = {}
       /\ lastCall'.op = "list_variables"
          => /\ ReturnedNames(lastCall') \cap GeoIdForIn = {}
             /\ (~Truthy(lastCall'.patterns) /\ Truthy(products))
                => AnsweredNames(lastCall') \ GeoIdForIn \subseteq ReturnedNames(lastCall')]_vars

\* list_variables without patterns was answered with a document that holds
\* the name in and another name, and has listed a name.
C16_Witness ==
    /\ lastCall.op = "list_variables"
    /\ ~Truthy(lastCall.patterns)
    /\ <<"i", "n">> \in AnsweredNames(lastCall)
    /\ N_B02 \in ReturnedNames(lastCall)

\* The (name, product, vintage) triples of the records a set_variables call
\* selects: the last-filtered view when no names are given, else the records
\* of the fresh listing whose name is one of the names.
SelectedVariables(call, view, pinned) ==
    IF IsNone(call.ids)
    THEN (IF Truthy(view)
          THEN {<<view.v[i].name, view.v[i].product, view.v[i].vintage>> :
                  i \in 1..Len(view.v)}
          ELSE {})
    ELSE {<<e[1], e[3], e[4]>> :
            e \in {x \in ExposedVariables(call, pinned) : x[1] \in IdsOf(call)}}

\* Groups hold one group per (product, vintage) pair of the selected
\* triples, and in each group the names selected for its pair.
GroupedBy(groups, selected) ==
    /\ \A j, k \in 1..Len(groups.v) :
          (groups.v[j].product = groups.v[k].product
             /\ groups.v[j].vintage = groups.v[k].vintage) => j = k
    /\ {<<groups.v[k].product, groups.v[k].vintage>> : k \in 1..Len(groups.v)}
          = {<<t[2], t[3]>> : t \in selected}
    /\ \A k \in 1..Len(groups.v) :
          Range(groups.v[k].names)
            = {t[1] : t \in {x \in selected : x[2] = groups.v[k].product
                                                /\ x[3] = groups.v[k].vintage}}

\* C20: a set_variables call that selects some record pins one group per
\* distinct (product title, vintage) pair of the selected records, and a name
\* is in a group's names exactly when a selected record with that name is of
\* the group's product and vintage.
C20_GroupsByProductAndVintage ==
    [][(/\ lastCall'.op = "set_variables"
        /\ SelectedVariables(lastCall', filtered_variables_cache, PinnedProducts) # {})
       => GroupedBy(variables',
                    SelectedVariables(lastCall', filtered_variables_cache,
                                      PinnedProducts))]_vars

\* set_variables has pinned two groups of one title and different vintages,
\* one of them with two names.
C20_Witness ==
    /\ lastCall.op = "set_variables"
    /\ Len(variables.v) = 2
    /\ variables.v[1].product = variables.v[2].product
    /\ variables.v[1].vintage # variables.v[2].vintage
    /\ Len(variables.v[2].names) = 2

\* The names held in a last-filtered variables view.
ViewNames(view) ==
    IF Truthy(view) THEN {view.v[i].name : i \in 1..Len(view.v)} ELSE {}

\* C19: at the end of the walk set_years([y]), list_products with one
\* pattern, set_products(), list_geos(), set_geos('040'), list_variables with
\* one pattern, set_variables(name), when the pattern matched a single
\* product and the name is one that list_variables listed, the selection holds
\* one product, the one geography 040 and one variable, that name, and the
\* geography and the variable carry the title and vintage of the product.
C19_EndToEndSelection ==
    [][(/\ lastCall'.op = "set_variables"
        /\ lastCall.op = "list_variables"
        /\ Len(filtered_products_cache.v) = 1
        /\ lastCall'.ids.v \in ViewNames(filtered_variables_cache))
       => /\ Len(products'.v) = 1
          /\ products' = filtered_products_cache
          /\ Len(geos'.v) = 1
          /\ geos'.v[1].sumlev = PyStr(L040)
          /\ geos'.v[1].product = heap'[products'.v[1]].title
          /\ geos'.v[1].vintage = heap'[products'.v[1]].vintage
          /\ Len(variables'.v) = 1
          /\ variables'.v[1].names = <<lastCall'.ids.v>>
          /\ variables'.v[1].product = heap'[products'.v[1]].title
          /\ variables'.v[1].vintage = heap'[products'.v[1]].vintage]_vars

\* The walk has ended with a product, a geography and a variable pinned, for
\* a product whose geography document holds a level besides 040.
C19_Witness ==
    /\ lastCall.op = "set_variables"
    /\ Len(products.v) = 1
    /\ Len(geos.v) = 1
    /\ Len(variables.v) = 1
    /\ Len(filtered_geos_cache.v) = 2
    /\ years = PyList(<<PyInt(2)>>)

\* The (title, vintage) pairs of the pinned products.
PinnedPairs == {<<PinnedProducts[i].title, PinnedProducts[i].vintage>> :
                  i \in 1..Len(PinnedProducts)}

\* C21: every pinned geography record and every pinned variable group names
\* the title and vintage of a product that is in the pinned products.
C21_SelectionFollowsProducts ==
    /\ \A i \in 1..Len(geos.v) :
          <<geos.v[i].product, geos.v[i].vintage>> \in PinnedPairs
    /\ \A k \in 1..Len(variables.v) :
          <<variables.v[k].product, variables.v[k].vintage>> \in PinnedPairs

\* The catalog fetch of a call failed: no document came back, or one without
\* a dataset list.
CatalogFetchFailed(call) ==
    /\ FetchedCatalog(call)
    /\ \/ ~Truthy(call.fetched[1].response)
       \/ "dataset" \notin DOMAIN call.fetched[1].response.v

\* C22: a list_products call whose catalog fetch fails returns an empty list,
\* raises nothing, leaves the catalog cache unset and the last-filtered
\* products view and the pinned selection unchanged; and the list_products
\* call that follows it fetches the catalog again.
C22_FailedFetchLeavesNoTrace ==
    [][/\ (lastCall'.op = "list_products" /\ CatalogFetchFailed(lastCall'))
          => /\ lastCall'.ret = PyList(<<>>)
             /\ lastCall'.raised = ""
             /\ IsNone(products_cache')
             /\ filtered_products_cache' = filtered_products_cache
             /\ Pinned' = Pinned
       /\ (/\ lastCall.op = "list_products" /\ CatalogFetchFailed(lastCall)
           /\ lastCall'.op = "list_products")
          => FetchedCatalog(lastCall')]_vars

====
